---- MODULE Spec2Model ----
(***************************************************************************)
(* A model of the vscode-flowr session client and dependency view:         *)
(*   - FlowrServerSession (src/src/flowr/server-session.ts): the socket,   *)
(*     the read buffer, the one-shot waiter and retrieveSlice;             *)
(*   - destroySession (src/src/extension.ts);                              *)
(*   - FlowrDependencyTreeView.refresh (src/unnamed/part_000): the working *)
(*     guard, lastText and the ring cache of results.                      *)
(* JavaScript runs handlers to completion: one action is one macrotask     *)
(* together with the microtasks (promise continuations) it releases.       *)
(***************************************************************************)
EXTENDS Integers, Sequences, FiniteSets, TLC

\* ------------------------------------------------------------------ bounds
MaxChunkLen == 2        \* longest chunk of one 'data' event
MaxStreamLen == 4       \* characters received on the socket in one behaviour
MaxCalls == 2           \* retrieveSlice invocations in one behaviour
MaxNodeId == 3          \* node identifiers of the analysed file
MaxLine == 2            \* start lines of the locations
MaxColumn == 1          \* start columns of the locations, from 0
MaxInFlight == 2        \* refresh invocations suspended at an await at one time
MaxPushes == 6          \* pushes to the result cache in one behaviour of the cache
MaxTextLen == 4         \* longest text given to textFingerprint
MaxSessions == 4        \* session objects the extension creates in one behaviour

NL == "\n"
Digits == {"1"}
Chars == Digits \cup {NL}
Chunks == UNION {[1..n -> Chars] : n \in 1..MaxChunkLen}
Calls == 1..MaxCalls
Awaiting == {"awaitAnalysis", "awaitSlice"}
NodeIds == 1..MaxNodeId
NoLocation == [line |-> 0, column |-> 0]     \* a node without n.location (lines start at 1)
Locations == [line : 1..MaxLine, column : 0..MaxColumn]

VARIABLES
  \* --- FlowrServerSession
  socket,                 \* net.Socket: "connecting" | "connected" | "closed"
  handleCloses,           \* how often the socket's handle has been released
  socketErrors,           \* phases in which an 'error' event was logged
  state,                  \* FlowrServerSession.state, as extension.ts reads it
  currentMessageBuffer,   \* the read buffer
  onceOnLineReceived,     \* the waiter: 0 (undefined) or the call whose promise it resolves
  idCounter,
  written,                \* requests handed to socket.write, in order
  emitted,                \* messages handleResponse passed on ('Received: ' lines)
  stream,                 \* every character received so far (history)
  pc,                     \* per retrieveSlice call: where it is suspended
  req,                    \* per call: the circumstances of its outstanding request
  responses,              \* per call: how its sendCommandWithResponse promises settled
  flowrSession,           \* extension.ts: "server" | "undefined"
  destroyCalls,           \* calls of destroy() on the session so far, counted to 2 (history)
  \* --- retrieveSlice after the slice response (lines 86-107)
  ast,                    \* the analysed nodes: id -> start of n.location, or NoLocation
  sliceResult,            \* sliceResponse.results.slice.result, in the order received
  sliceElements,          \* what is handed to createDiagnostics
  slicePc,                \* "response" | "done"
  \* --- FlowrDependencyTreeView and the editor it watches
  activeTextEditor,       \* vscode.window.activeTextEditor: "undefined", or its languageId
  documentText,           \* the text of the R document
  working,
  lastText,
  textBuffer,             \* the RotaryBuffer of <<fingerprint, result>>, oldest first
  activeDependencies,
  locationMap,
  inflight,               \* the refresh invocations suspended at an await
  lastExit,               \* where refresh last left, suspended or finished (history)
  seenText,               \* the fingerprint the latest refresh to read the text saw (history)
  pushLog,                \* the fingerprints pushed to the cache, in order (history)
  \* --- textFingerprint on its own
  fpText,                 \* the text it is given
  fpPrint,                \* what it returns, <<"none">> before it is called
  \* --- extension.ts with the session objects it creates
  sessions,               \* every session object created, in order of creation
  flowrSessionRef         \* which of them flowrSession refers to, 0 for undefined

sessionVars == <<socket, handleCloses, socketErrors, state, currentMessageBuffer,
                 onceOnLineReceived, idCounter, written, emitted, stream, pc, req,
                 responses, flowrSession, destroyCalls>>

sliceVars == <<ast, sliceResult, sliceElements, slicePc>>

viewVars == <<activeTextEditor, documentText, working, lastText, textBuffer,
              activeDependencies, locationMap, inflight, lastExit, seenText, pushLog>>

fingerprintVars == <<fpText, fpPrint>>

extensionVars == <<sessions, flowrSessionRef>>

vars == <<sessionVars, sliceVars, viewVars, fingerprintVars, extensionVars>>

\* --------------------------------------------------------- pure helpers
EndsWithNL(m) == Len(m) > 0 /\ m[Len(m)] = NL

RECURSIVE TrimLeft(_)
TrimLeft(s) == IF s # <<>> /\ s[1] = NL THEN TrimLeft(Tail(s)) ELSE s

RECURSIVE TrimRight(_)
TrimRight(s) ==
  IF s # <<>> /\ s[Len(s)] = NL THEN TrimRight(SubSeq(s, 1, Len(s) - 1)) ELSE s

\* JSON.parse on this alphabet: whitespace around the value is skipped, the value
\* is a non-empty run of digits, anything else is a SyntaxError.
JSONParse(s) ==
  LET t == TrimRight(TrimLeft(s))
  IN IF t # <<>> /\ \A k \in 1..Len(t) : t[k] \in Digits
     THEN [ok |-> TRUE, val |-> t]
     ELSE [ok |-> FALSE, val |-> <<>>]

\* ------------------------------------------------------ FlowrServerSession
\* A request that carries the same identifier whatever the counter says.
RequestWithFixedId(type, id, by) == [type |-> type, id |-> 0, filetoken |-> "@tmp", by |-> by]

\* The message retrieveSlice builds: id is String(this.idCounter++), by the call
\* that wrote it (history).
Request(type, id, by) == [type |-> type, id |-> id, filetoken |-> "@tmp", by |-> by]

\* socket.write: a closed socket takes nothing.
SocketWrite(w, r) == IF socket = "closed" THEN w ELSE Append(w, r)

NoOtherOutstanding(i) == \A j \in Calls \ {i} : pc[j] \notin Awaiting

SessionInit ==
  /\ socket = "connecting"
  /\ handleCloses = 0
  /\ socketErrors = {}
  /\ state = "undefined"
  /\ currentMessageBuffer = <<>>
  /\ onceOnLineReceived = 0
  /\ idCounter = 0
  /\ written = <<>>
  /\ emitted = <<>>
  /\ stream = <<>>
  /\ pc = [i \in Calls |-> "idle"]
  /\ req = [i \in Calls |-> [pos |-> 0, excl |-> FALSE, quiet |-> FALSE]]
  /\ responses = [i \in Calls |-> <<>>]
  /\ flowrSession = "server"
  /\ destroyCalls = 0

\* The connection callback of net.createConnection.
Connect ==
  /\ socket = "connecting"
  /\ socket' = "connected"
  /\ UNCHANGED <<handleCloses, socketErrors, state, currentMessageBuffer,
                 onceOnLineReceived, idCounter, written, emitted, stream, pc, req,
                 responses, flowrSession, destroyCalls>>
  /\ UNCHANGED <<sliceVars, viewVars, fingerprintVars, extensionVars>>

\* socket.on('error'): the handler appends a log line; the socket then closes.
SocketError ==
  /\ socket \in {"connecting", "connected"}
  /\ socketErrors' = socketErrors \cup {socket}
  /\ socket' = "closed"
  /\ handleCloses' = handleCloses + 1
  /\ UNCHANGED <<state, currentMessageBuffer, onceOnLineReceived, idCounter, written,
                 emitted, stream, pc, req, responses, flowrSession, destroyCalls>>
  /\ UNCHANGED <<sliceVars, viewVars, fingerprintVars, extensionVars>>

\* The server ends the connection: no handler is registered for 'close'.
SocketClose ==
  /\ socket = "connected"
  /\ socket' = "closed"
  /\ handleCloses' = handleCloses + 1
  /\ UNCHANGED <<socketErrors, state, currentMessageBuffer, onceOnLineReceived,
                 idCounter, written, emitted, stream, pc, req, responses, flowrSession,
                 destroyCalls>>
  /\ UNCHANGED <<sliceVars, viewVars, fingerprintVars, extensionVars>>

\* A destroy() that releases the handle on every call.
DestroyEffectReleasesAgain ==
  /\ socket' = "closed"
  /\ handleCloses' = handleCloses + 1
  /\ destroyCalls' = IF destroyCalls < 2 THEN destroyCalls + 1 ELSE destroyCalls

\* destroy(): socket.destroy() releases the handle of a socket not yet closed.
DestroyEffect ==
  /\ socket' = "closed"
  /\ handleCloses' = IF socket = "closed" THEN handleCloses ELSE handleCloses + 1
  /\ destroyCalls' = IF destroyCalls < 2 THEN destroyCalls + 1 ELSE destroyCalls

Destroy ==
  /\ DestroyEffect
  /\ UNCHANGED <<socketErrors, state, currentMessageBuffer, onceOnLineReceived,
                 idCounter, written, emitted, stream, pc, req, responses, flowrSession>>
  /\ UNCHANGED <<sliceVars, viewVars, fingerprintVars, extensionVars>>

\* extension.ts destroySession: flowrSession?.destroy(); flowrSession = undefined
DestroySession ==
  /\ IF flowrSession # "undefined"
     THEN DestroyEffect
     ELSE UNCHANGED <<socket, handleCloses, destroyCalls>>
  /\ flowrSession' = "undefined"
  /\ UNCHANGED <<socketErrors, state, currentMessageBuffer, onceOnLineReceived,
                 idCounter, written, emitted, stream, pc, req, responses>>
  /\ UNCHANGED <<sliceVars, viewVars, fingerprintVars, extensionVars>>

\* An awaitResponse that leaves a waiter already in the slot where it is.
AwaitResponseKeepsFirst(i) == IF onceOnLineReceived # 0 THEN onceOnLineReceived ELSE i

\* awaitResponse: this.onceOnLineReceived = resolve, whatever the slot held.
AwaitResponse(i) == i

\* retrieveSlice up to its first await: awaitResponse() stores the resolver in the
\* one slot, sendCommand writes the file-analysis request.
RetrieveSlice(i) ==
  /\ pc[i] = "idle"
  /\ onceOnLineReceived' = AwaitResponse(i)
  /\ written' = SocketWrite(written, Request("request-file-analysis", idCounter, i))
  /\ idCounter' = idCounter + 1
  /\ pc' = [pc EXCEPT ![i] = "awaitAnalysis"]
  /\ req' = [req EXCEPT ![i] = [pos |-> Len(stream),
                                excl |-> NoOtherOutstanding(i) /\ onceOnLineReceived = 0,
                                quiet |-> currentMessageBuffer = <<>>]]
  /\ socketErrors' = IF socket = "closed" THEN socketErrors \cup {"write"} ELSE socketErrors
  /\ UNCHANGED <<socket, handleCloses, state, currentMessageBuffer, emitted, stream,
                 responses, flowrSession, destroyCalls>>
  /\ UNCHANGED <<sliceVars, viewVars, fingerprintVars, extensionVars>>

\* A handleResponse that passes on the last chunk without what was buffered.
HandleResponseStepDropsBuffer(buf, message) ==
  IF ~EndsWithNL(message)
  THEN [buffer |-> buf \o message, emit |-> FALSE, line |-> <<>>]
  ELSE [buffer |-> <<>>, emit |-> TRUE, line |-> message]

\* A handleResponse that passes the message on and still keeps it buffered.
HandleResponseStepKeepsBuffer(buf, message) ==
  IF ~EndsWithNL(message)
  THEN [buffer |-> buf \o message, emit |-> FALSE, line |-> <<>>]
  ELSE [buffer |-> buf \o message, emit |-> TRUE, line |-> buf \o message]

\* handleResponse on the buffer alone: what is kept, and what is passed on.
HandleResponseStep(buf, message) ==
  IF ~EndsWithNL(message)
  THEN [buffer |-> buf \o message, emit |-> FALSE, line |-> <<>>]
  ELSE [buffer |-> <<>>, emit |-> TRUE, line |-> buf \o message]

\* The continuation of call i once its response promise resolved with `line`:
\* JSON.parse, then the rest of retrieveSlice up to its next await or its end.
Resume(i, line) ==
  LET r == JSONParse(line)
      rec == [ok |-> r.ok, val |-> r.val, pos |-> req[i].pos, end |-> Len(stream'),
              excl |-> req[i].excl, quiet |-> req[i].quiet, step |-> pc[i]]
  IN /\ responses' = [responses EXCEPT ![i] = Append(@, rec)]
     /\ IF r.ok /\ pc[i] = "awaitAnalysis"
        THEN /\ onceOnLineReceived' = AwaitResponse(i)
             /\ written' = SocketWrite(written, Request("request-slice", idCounter, i))
             /\ idCounter' = idCounter + 1
             /\ pc' = [pc EXCEPT ![i] = "awaitSlice"]
             /\ req' = [req EXCEPT ![i] = [pos |-> Len(stream'),
                                           excl |-> NoOtherOutstanding(i),
                                           quiet |-> TRUE]]
        ELSE /\ onceOnLineReceived' = 0
             /\ pc' = [pc EXCEPT ![i] = IF r.ok THEN "returned" ELSE "rejected"]
             /\ UNCHANGED <<written, idCounter, req>>

\* socket.on('data'): handleResponse(String(str)), then the microtasks it released.
Data(message) ==
  /\ socket = "connected"
  /\ Len(stream) + Len(message) <= MaxStreamLen
  /\ stream' = stream \o message
  /\ LET h == HandleResponseStep(currentMessageBuffer, message)
     IN /\ currentMessageBuffer' = h.buffer
        /\ IF ~h.emit
           THEN UNCHANGED <<emitted, onceOnLineReceived, written, idCounter, pc, req,
                            responses>>
           ELSE /\ emitted' = Append(emitted, h.line)
                /\ IF onceOnLineReceived = 0
                   THEN UNCHANGED <<onceOnLineReceived, written, idCounter, pc, req,
                                    responses>>
                   ELSE Resume(onceOnLineReceived, h.line)
  /\ UNCHANGED <<socket, handleCloses, socketErrors, state, flowrSession, destroyCalls>>
  /\ UNCHANGED <<sliceVars, viewVars, fingerprintVars, extensionVars>>

SessionNext ==
  \/ Connect
  \/ SocketError
  \/ SocketClose
  \/ Destroy
  \/ DestroySession
  \/ \E i \in Calls : RetrieveSlice(i)
  \/ \E m \in Chunks : Data(m)

emptyDependencies == <<"empty">>
emptyLocationMap == <<"empty">>

\* No slice response at hand.
SliceIdle ==
  /\ ast = [id \in NodeIds |-> NoLocation]
  /\ sliceResult = <<>>
  /\ sliceElements = <<>>
  /\ slicePc = "done"

\* The dependency view as constructed, with no editor open.
ViewIdle ==
  /\ activeTextEditor = "undefined"
  /\ documentText = <<>>
  /\ working = FALSE
  /\ lastText = <<>>
  /\ textBuffer = <<>>
  /\ activeDependencies = emptyDependencies
  /\ locationMap = emptyLocationMap
  /\ inflight = <<>>
  /\ lastExit = "none"
  /\ seenText = <<"none">>
  /\ pushLog = <<>>

\* textFingerprint not called.
FingerprintIdle ==
  /\ fpText = <<>>
  /\ fpPrint = <<"none">>

\* No session object created by the extension.
ExtensionIdle ==
  /\ sessions = <<>>
  /\ flowrSessionRef = 0

SessionSpecInit == SessionInit /\ SliceIdle /\ ViewIdle /\ FingerprintIdle /\ ExtensionIdle

SessionSpec == SessionSpecInit /\ [][SessionNext]_vars

\* The event loop runs a handler whose event is ready.
FairSessionSpec == SessionSpec /\ WF_vars(SessionNext)

\* -------------------------------------------- retrieveSlice: reconciliation
\* visitAst: idToLocation holds the nodes that carry a location.
IdToLocation(a) == [id \in {n \in NodeIds : a[n] # NoLocation} |-> a[id]]

\* A comparator that looks at the lines only.
CompareLinesOnly(a, b) == a.location.line - b.location.line

\* The comparator of sliceElements.sort: by start line, then by start column.
Compare(a, b) ==
  IF a.location.line - b.location.line # 0
  THEN a.location.line - b.location.line
  ELSE a.location.column - b.location.column

\* Array.prototype.sort is stable: an element goes behind every element that does
\* not compare greater.
RECURSIVE Insert(_, _)
Insert(sorted, e) ==
  IF sorted = <<>> THEN <<e>>
  ELSE IF Compare(Head(sorted), e) > 0 THEN <<e>> \o sorted
       ELSE <<Head(sorted)>> \o Insert(Tail(sorted), e)

RECURSIVE Sort(_)
Sort(s) == IF s = <<>> THEN <<>> ELSE Insert(Sort(SubSeq(s, 1, Len(s) - 1)), s[Len(s)])

\* .map(id => ({id, location: idToLocation.get(id)})).filter(e => isNotUndefined(e.location))
RECURSIVE MapFilter(_, _)
MapFilter(result, map) ==
  IF result = <<>> THEN <<>>
  ELSE (IF Head(result) \in DOMAIN map
        THEN <<[id |-> Head(result), location |-> map[Head(result)]]>>
        ELSE <<>>) \o MapFilter(Tail(result), map)

SliceElements(result, a) == Sort(MapFilter(result, IdToLocation(a)))

\* A slice result is a set of node identifiers, received as an array in any order.
SliceResults == {r \in UNION {[1..n -> NodeIds] : n \in 0..MaxNodeId} :
                   \A k, l \in 1..Len(r) : r[k] = r[l] => k = l}

SliceInit ==
  /\ ast \in [NodeIds -> Locations \cup {NoLocation}]
  /\ sliceResult \in SliceResults
  /\ sliceElements = <<>>
  /\ slicePc = "response"

Reconcile ==
  /\ slicePc = "response"
  /\ sliceElements' = SliceElements(sliceResult, ast)
  /\ slicePc' = "done"
  /\ UNCHANGED <<ast, sliceResult>>
  /\ UNCHANGED <<sessionVars, viewVars, fingerprintVars, extensionVars>>

SliceNext == Reconcile

SliceSpecInit == SliceInit /\ SessionInit /\ ViewIdle /\ FingerprintIdle /\ ExtensionIdle

SliceSpec == SliceSpecInit /\ [][SliceNext]_vars

\* ------------------------------------------------- FlowrDependencyTreeView
Whitespace == {" ", NL}
DocTexts == {<<"a">>, <<"a", NL, "#">>, <<"b">>, <<"#", "b">>}
EditorStates == {"undefined", "r", "other"}

RECURSIVE TrimStart(_)
TrimStart(t) == IF t # <<>> /\ t[1] \in Whitespace THEN TrimStart(Tail(t)) ELSE t

RECURSIVE TrimEnd(_)
TrimEnd(t) ==
  IF t # <<>> /\ t[Len(t)] \in Whitespace THEN TrimEnd(SubSeq(t, 1, Len(t) - 1)) ELSE t

\* The last position of the line that position p is on.
EndOfLine(t, p) == CHOOSE q \in p..Len(t) :
                     /\ q = Len(t) \/ t[q + 1] = NL
                     /\ \A m \in (p + 1)..q : t[m] # NL

\* replace(/\s|^\s*#.*$/gm, ''), from position p on: the first alternative takes a
\* white character wherever it stands, so the second only ever matches with its
\* '#' at the very start of a line.
RECURSIVE StripFrom(_, _)
StripFrom(t, p) ==
  IF p > Len(t) THEN <<>>
  ELSE IF t[p] \in Whitespace THEN StripFrom(t, p + 1)
  ELSE IF t[p] = "#" /\ (p = 1 \/ t[p - 1] = NL) THEN StripFrom(t, EndOfLine(t, p) + 1)
  ELSE <<t[p]>> \o StripFrom(t, p + 1)

textFingerprint(text) == StripFrom(TrimEnd(TrimStart(text)), 1)

\* What the server answers for a document text: its dependencies, its location map.
QueryResult(content) == [dep |-> <<"dep">> \o content, loc |-> <<"loc">> \o content]
EmptyResult == [dep |-> emptyDependencies, loc |-> emptyLocationMap]

\* A buffer built one entry too large.
TextBufferCapacityOffByOne == 5 + 1

\* new RotaryBuffer(5)
TextBufferCapacity == 5

\* RotaryBuffer.push: append, the oldest entry making room once the buffer is full.
RotaryPush(buf, e) ==
  IF Len(buf) < TextBufferCapacity THEN Append(buf, e) ELSE Append(Tail(buf), e)

\* RotaryBuffer.get(e => e?.[0] === text): the entries that match, latest last.
RotaryMatches(buf, text) == {k \in DOMAIN buf : buf[k][1] = text}
RotaryGet(buf, text) ==
  buf[CHOOSE k \in RotaryMatches(buf, text) : \A l \in RotaryMatches(buf, text) : l <= k]

\* A refresh that never looks at the guard.
RefreshDroppedNever == FALSE

\* if(this.working) return
RefreshDropped == working

\* A refresh that does not record the text it saw.
LastTextNotRecorded(text) == lastText

\* this.lastText = text ?? ''
LastTextOnRefresh(text) == text

\* A cache hit that leaves on display what was there.
UseCachedKeepsDisplayed(has) == [dep |-> activeDependencies, loc |-> locationMap]

\* if(has): what lines 127-128 put on display, has[1].dep and has[1].loc.
UseCached(has) == [dep |-> has[2].dep, loc |-> has[2].loc]

\* An error branch that resets the display whatever the setting.
OnErrorAlwaysResets(keepOnError) == EmptyResult

\* if(res === 'error'): the display is kept when dependencyView.keepOnError is
\* set (the default), reset to the empty results when it is not.
OnError(keepOnError) ==
  IF keepOnError
  THEN [dep |-> activeDependencies, loc |-> locationMap]
  ELSE EmptyResult

\* A refresh that leaves the flag set on its way out.
WorkingLeftSet == TRUE

\* finally { this.working = false }
WorkingAfterFinally == FALSE

Remove(seq, k) == SubSeq(seq, 1, k - 1) \o SubSeq(seq, k + 1, Len(seq))

ViewInit ==
  /\ activeTextEditor \in EditorStates
  /\ documentText \in DocTexts
  /\ working = FALSE
  /\ lastText = <<>>
  /\ textBuffer = <<>>
  /\ activeDependencies = emptyDependencies
  /\ locationMap = emptyLocationMap
  /\ inflight = <<>>
  /\ lastExit = "none"
  /\ seenText = <<"none">>
  /\ pushLog = <<>>

\* refresh(), from its call to its return or to its first await (lines 108-132,
\* 85-90): withProgress runs getDependenciesForActiveFile at once, which suspends
\* at `await getFlowrSession()`. A cache hit runs through `finally` in this step.
Refresh ==
  /\ IF RefreshDropped
     THEN /\ lastExit' = "working"
          /\ UNCHANGED <<working, lastText, textBuffer, activeDependencies,
                         locationMap, inflight, seenText>>
     ELSE IF activeTextEditor # "r"
     THEN /\ lastExit' = "language"
          /\ UNCHANGED <<working, lastText, textBuffer, activeDependencies,
                         locationMap, inflight, seenText>>
     ELSE LET text == textFingerprint(documentText)
          IN /\ seenText' = text
             /\ IF text = lastText
                THEN /\ lastExit' = "lastText"
                     /\ UNCHANGED <<working, lastText, textBuffer, activeDependencies,
                                    locationMap, inflight>>
                ELSE /\ lastText' = LastTextOnRefresh(text)
                     /\ IF RotaryMatches(textBuffer, text) # {}
                        THEN /\ activeDependencies' = UseCached(RotaryGet(textBuffer, text)).dep
                             /\ locationMap' = UseCached(RotaryGet(textBuffer, text)).loc
                             /\ working' = WorkingAfterFinally
                             /\ lastExit' = "cache"
                             /\ UNCHANGED <<textBuffer, inflight>>
                        ELSE /\ Len(inflight) < MaxInFlight
                             /\ working' = TRUE
                             /\ inflight' = Append(inflight, [text |-> text,
                                                              pc |-> "awaitSession",
                                                              content |-> <<>>])
                             /\ lastExit' = "query"
                             /\ UNCHANGED <<textBuffer, activeDependencies, locationMap>>
  /\ UNCHANGED <<activeTextEditor, documentText, pushLog>>
  /\ UNCHANGED <<sessionVars, sliceVars, fingerprintVars, extensionVars>>

\* getFlowrSession() resolved: retrieveQuery is called with the document taken at
\* line 86, and reads the text that document has now.
SessionReady(k) ==
  /\ k \in DOMAIN inflight
  /\ inflight[k].pc = "awaitSession"
  /\ inflight' = [inflight EXCEPT ![k].pc = "awaitQuery", ![k].content = documentText]
  /\ UNCHANGED <<activeTextEditor, documentText, working, lastText, textBuffer,
                 activeDependencies, locationMap, lastExit, seenText, pushLog>>
  /\ UNCHANGED <<sessionVars, sliceVars, fingerprintVars, extensionVars>>

\* retrieveQuery answered with a result: lines 96-97, 144-147, then `finally`.
QuerySucceeded(k) ==
  /\ k \in DOMAIN inflight
  /\ inflight[k].pc = "awaitQuery"
  /\ activeDependencies' = QueryResult(inflight[k].content).dep
  /\ locationMap' = QueryResult(inflight[k].content).loc
  /\ textBuffer' = RotaryPush(textBuffer, <<inflight[k].text, QueryResult(inflight[k].content)>>)
  /\ working' = WorkingAfterFinally
  /\ inflight' = Remove(inflight, k)
  /\ lastExit' = "refreshed"
  /\ UNCHANGED <<activeTextEditor, documentText, lastText, seenText, pushLog>>
  /\ UNCHANGED <<sessionVars, sliceVars, fingerprintVars, extensionVars>>

\* retrieveQuery answered with an error: lines 92-95, 134-142, then `finally`.
\* keepOnError is the configuration value read at line 135.
QueryFailed(k, keepOnError) ==
  /\ k \in DOMAIN inflight
  /\ inflight[k].pc = "awaitQuery"
  /\ activeDependencies' = OnError(keepOnError).dep
  /\ locationMap' = OnError(keepOnError).loc
  /\ working' = WorkingAfterFinally
  /\ inflight' = Remove(inflight, k)
  /\ lastExit' = IF keepOnError THEN "errorKept" ELSE "errorReset"
  /\ UNCHANGED <<activeTextEditor, documentText, lastText, textBuffer, seenText, pushLog>>
  /\ UNCHANGED <<sessionVars, sliceVars, fingerprintVars, extensionVars>>

\* getFlowrSession() or retrieveQuery rejected: the catch of line 148, then `finally`.
QueryRejected(k) ==
  /\ k \in DOMAIN inflight
  /\ working' = WorkingAfterFinally
  /\ inflight' = Remove(inflight, k)
  /\ lastExit' = "rejected"
  /\ UNCHANGED <<activeTextEditor, documentText, lastText, textBuffer,
                 activeDependencies, locationMap, seenText, pushLog>>
  /\ UNCHANGED <<sessionVars, sliceVars, fingerprintVars, extensionVars>>

\* The user edits the R document.
EditDocument(t) ==
  /\ t # documentText
  /\ documentText' = t
  /\ UNCHANGED <<activeTextEditor, working, lastText, textBuffer, activeDependencies,
                 locationMap, inflight, lastExit, seenText, pushLog>>
  /\ UNCHANGED <<sessionVars, sliceVars, fingerprintVars, extensionVars>>

\* The user moves to another editor, or closes the last one.
ChangeActiveTextEditor(e) ==
  /\ e # activeTextEditor
  /\ activeTextEditor' = e
  /\ UNCHANGED <<documentText, working, lastText, textBuffer, activeDependencies,
                 locationMap, inflight, lastExit, seenText, pushLog>>
  /\ UNCHANGED <<sessionVars, sliceVars, fingerprintVars, extensionVars>>

ViewNext ==
  \/ Refresh
  \/ \E k \in 1..MaxInFlight : SessionReady(k)
  \/ \E k \in 1..MaxInFlight : QuerySucceeded(k)
  \/ \E k \in 1..MaxInFlight : \E keepOnError \in BOOLEAN : QueryFailed(k, keepOnError)
  \/ \E k \in 1..MaxInFlight : QueryRejected(k)
  \/ \E t \in DocTexts : EditDocument(t)
  \/ \E e \in EditorStates : ChangeActiveTextEditor(e)

ViewSpecInit == ViewInit /\ SessionInit /\ SliceIdle /\ FingerprintIdle /\ ExtensionIdle

ViewSpec == ViewSpecInit /\ [][ViewNext]_vars

\* The promises a suspended refresh awaits settle: getFlowrSession() resolves or
\* rejects, and so does the query.
Settle ==
  \/ \E k \in 1..MaxInFlight : QuerySucceeded(k)
  \/ \E k \in 1..MaxInFlight : \E keepOnError \in BOOLEAN : QueryFailed(k, keepOnError)
  \/ \E k \in 1..MaxInFlight : QueryRejected(k)

FairViewSpec ==
  /\ ViewSpec
  /\ WF_vars(\E k \in 1..MaxInFlight : SessionReady(k))
  /\ WF_vars(Settle)

\* ------------------------------------------------------------ the result cache
\* The fingerprints of the entries pushed: six of them, one more than fit.
CacheKeys == {<<"a">>, <<"b">>, <<"a", "a">>, <<"a", "b">>, <<"b", "a">>, <<"b", "b">>}

\* this.textBuffer.push([text, res]) of line 146, on its own.
PushResult(text) ==
  /\ Len(pushLog) < MaxPushes
  /\ textBuffer' = RotaryPush(textBuffer, <<text, QueryResult(text)>>)
  /\ pushLog' = Append(pushLog, text)
  /\ UNCHANGED <<activeTextEditor, documentText, working, lastText, activeDependencies,
                 locationMap, inflight, lastExit, seenText>>
  /\ UNCHANGED <<sessionVars, sliceVars, fingerprintVars, extensionVars>>

CacheNext == \E text \in CacheKeys : PushResult(text)

CacheSpecInit == ViewIdle /\ SessionInit /\ SliceIdle /\ FingerprintIdle /\ ExtensionIdle

CacheSpec == CacheSpecInit /\ [][CacheNext]_vars

\* ------------------------------------------------------ textFingerprint alone
\* The characters that matter to the fingerprint: a letter, the comment sign, a
\* blank and the line break.
TextChars == {"a", "#", " ", NL}

RECURSIVE TextsOfLen(_)
TextsOfLen(n) ==
  IF n = 0 THEN {<<>>}
  ELSE {Append(t, c) : t \in TextsOfLen(n - 1), c \in TextChars}

Texts == UNION {TextsOfLen(n) : n \in 0..MaxTextLen}

FingerprintInit ==
  /\ fpText \in Texts
  /\ fpPrint = <<"none">>

\* const text = this.textFingerprint(document.getText())
Fingerprint ==
  /\ fpPrint = <<"none">>
  /\ fpPrint' = textFingerprint(fpText)
  /\ UNCHANGED fpText
  /\ UNCHANGED <<sessionVars, sliceVars, viewVars, extensionVars>>

FingerprintNext == Fingerprint

FingerprintSpecInit == FingerprintInit /\ SessionInit /\ SliceIdle /\ ViewIdle /\ ExtensionIdle

FingerprintSpec == FingerprintSpecInit /\ [][FingerprintNext]_vars

\* ------------------------------------------------- extension.ts: the sessions
\* new FlowrInternalSession(outputChannel) / new FlowrServerSession(outputChannel):
\* how often destroy() was called on it, and whether initialize() has finished.
NewSession(kind) ==
  [kind |-> kind, destroys |-> 0, init |-> IF kind = "server" THEN "done" ELSE "pending"]

\* flowrSession instanceof FlowrServerSession
IsServerSession == flowrSessionRef # 0 /\ sessions[flowrSessionRef].kind = "server"

\* A destroySession that drops the reference without destroying the session.
destroySessionOnlyUnsets == sessions

\* destroySession, line 97: flowrSession?.destroy()
destroySession ==
  IF flowrSessionRef = 0 THEN sessions
  ELSE [sessions EXCEPT ![flowrSessionRef].destroys = @ + 1]

\* After activate: nothing, or the server session of the auto-connect setting.
ExtensionInit ==
  \/ sessions = <<>> /\ flowrSessionRef = 0
  \/ sessions = <<NewSession("server")>> /\ flowrSessionRef = 1

\* establishInternalSession up to its await: destroySession(), new, initialize().
EstablishInternalSession ==
  /\ Len(sessions) < MaxSessions
  /\ sessions' = Append(destroySession, NewSession("internal"))
  /\ flowrSessionRef' = Len(sessions) + 1
  /\ UNCHANGED <<sessionVars, sliceVars, viewVars, fingerprintVars>>

\* The dataflow command: if(!flowrSession) await establishInternalSession()
Dataflow ==
  /\ flowrSessionRef = 0
  /\ Len(sessions) < MaxSessions
  /\ sessions' = Append(destroySession, NewSession("internal"))
  /\ flowrSessionRef' = Len(sessions) + 1
  /\ UNCHANGED <<sessionVars, sliceVars, viewVars, fingerprintVars>>

\* `await flowrSession.initialize()` of session k finishes, whether or not the
\* session has been destroyed or replaced in the meantime.
Initialized(k) ==
  /\ k \in DOMAIN sessions
  /\ sessions[k].init = "pending"
  /\ sessions' = [sessions EXCEPT ![k].init = "done"]
  /\ UNCHANGED flowrSessionRef
  /\ UNCHANGED <<sessionVars, sliceVars, viewVars, fingerprintVars>>

\* establishServerSession, also the command vscode-flowr.session.connect.
EstablishServerSession ==
  /\ Len(sessions) < MaxSessions
  /\ sessions' = Append(destroySession, NewSession("server"))
  /\ flowrSessionRef' = Len(sessions) + 1
  /\ UNCHANGED <<sessionVars, sliceVars, viewVars, fingerprintVars>>

\* The command vscode-flowr.session.disconnect.
Disconnect ==
  /\ IF IsServerSession
     THEN /\ sessions' = destroySession
          /\ flowrSessionRef' = 0
     ELSE UNCHANGED <<sessions, flowrSessionRef>>
  /\ UNCHANGED <<sessionVars, sliceVars, viewVars, fingerprintVars>>

\* destroySession() called by the Disposable of line 68 or on SIGINT.
Dispose ==
  /\ sessions' = destroySession
  /\ flowrSessionRef' = 0
  /\ UNCHANGED <<sessionVars, sliceVars, viewVars, fingerprintVars>>

ExtensionNext ==
  \/ EstablishInternalSession
  \/ Dataflow
  \/ \E k \in 1..MaxSessions : Initialized(k)
  \/ EstablishServerSession
  \/ Disconnect
  \/ Dispose

ExtensionSpecInit ==
  ExtensionInit /\ SessionInit /\ SliceIdle /\ ViewIdle /\ FingerprintIdle

ExtensionSpec == ExtensionSpecInit /\ [][ExtensionNext]_vars

\* ------------------------------------------------------------ the claims

\* A transmission cut at every terminator: its frames, each with its terminator.
RECURSIVE Frames(_)
Frames(s) ==
  IF s = <<>> THEN <<>>
  ELSE LET k == CHOOSE n \in 1..Len(s) :
                  /\ s[n] = NL \/ n = Len(s)
                  /\ \A m \in 1..(n - 1) : s[m] # NL
       IN <<SubSeq(s, 1, k)>> \o Frames(SubSeq(s, k + 1, Len(s)))

\* What handleResponse passes on when it is given these chunks, from an empty buffer.
RECURSIVE EmissionsFrom(_, _)
EmissionsFrom(buf, chunks) ==
  IF chunks = <<>> THEN <<>>
  ELSE LET h == HandleResponseStep(buf, Head(chunks))
       IN (IF h.emit THEN <<h.line>> ELSE <<>>) \o EmissionsFrom(h.buffer, Tail(chunks))

\* A byte string made of newline-terminated frames, each holding a payload.
IsTransmission(s) ==
  /\ EndsWithNL(s)
  /\ \A k \in 1..Len(s) : s[k] = NL => (k > 1 /\ s[k - 1] # NL)

\* C1: fragmentation invariance. Whenever the chunks received so far make up a
\* transmission of complete frames, the messages handleResponse has passed on are
\* the ones it passes on when the transmission arrives as one chunk, and they are
\* the frames of the transmission, one per emission.
C1_FragmentationInvariance ==
  IsTransmission(stream) =>
    /\ emitted = EmissionsFrom(<<>>, <<stream>>)
    /\ emitted = Frames(stream)

\* One newline-terminated reply holding a JSON value.
IsSingleReply(s) ==
  /\ Len(s) >= 2
  /\ s[Len(s)] = NL
  /\ \A k \in 1..(Len(s) - 1) : s[k] \in Digits

ReceivedSince(pos, end) == SubSeq(stream, pos + 1, end)

\* C2: in a well-formed single round trip (no other request outstanding, nothing
\* half-received when the request is written, one newline-terminated JSON reply in
\* any number of chunks) the promise of sendCommandWithResponse resolves, once,
\* with the parsed payload of that reply, and it does so when the reply is complete.
C2_ResolvesWithNextFrame ==
  \A i \in Calls :
    /\ \A k \in DOMAIN responses[i] :
         LET r == responses[i][k]
             reply == ReceivedSince(r.pos, r.end)
         IN (r.excl /\ r.quiet /\ IsSingleReply(reply)) =>
              /\ r.ok
              /\ r.val = SubSeq(reply, 1, Len(reply) - 1)
              /\ \A l \in DOMAIN responses[i] : responses[i][l].pos = r.pos => l = k
    /\ (pc[i] \in Awaiting /\ req[i].excl /\ req[i].quiet /\ NoOtherOutstanding(i)) =>
         ~IsSingleReply(ReceivedSince(req[i].pos, Len(stream)))

\* A reply that arrived in two chunks resolved a well-formed round trip.
C2_Witness ==
  \E i \in Calls : \E k \in DOMAIN responses[i] :
    LET r == responses[i][k]
    IN /\ r.excl /\ r.quiet /\ r.ok
       /\ IsSingleReply(ReceivedSince(r.pos, r.end))
       /\ r.end - r.pos = 3

\* C3: a response promise outstanding when the socket is closed or destroyed is
\* eventually rejected.
C3_PendingRejectsAfterTeardown ==
  \A i \in Calls : (socket = "closed" /\ pc[i] \in Awaiting) ~> (pc[i] = "rejected")

\* C4: at most one request is outstanding on the session at any time.
C4_AtMostOneOutstanding ==
  Cardinality({i \in Calls : pc[i] \in Awaiting}) <= 1

\* C5: destroy is idempotent. A destroy() of a session whose socket is already
\* closed, and a destroySession() when no session is referenced, change nothing:
\* no second release of the handle, no other state touched.
C5_DestroyIdempotent ==
  [][((Destroy /\ destroyCalls >= 1) \/ (DestroySession /\ flowrSession = "undefined"))
       => UNCHANGED <<socket, handleCloses, socketErrors, state, currentMessageBuffer,
                      onceOnLineReceived, idCounter, written, emitted, stream, pc, req,
                      responses, flowrSession>>]_vars

\* The session has been destroyed twice, the second time through destroy() after
\* destroySession() had dropped the reference.
C5_Witness ==
  destroyCalls = 2 /\ flowrSession = "undefined" /\ socket = "closed" /\ handleCloses = 1

\* (line, column) of a before or at that of b.
StartsBeforeOrAt(a, b) ==
  \/ a.location.line < b.location.line
  \/ a.location.line = b.location.line /\ a.location.column <= b.location.column

\* C7: location reconciliation. The elements handed on for highlighting are the
\* identifiers of the slice result that the location map knows, each once, with
\* the location the map gives, ascending by (start line, start column).
C7_Reconciliation ==
  slicePc = "done" =>
    LET known == {n \in NodeIds : ast[n] # NoLocation}
        S == {sliceResult[k] : k \in DOMAIN sliceResult}
    IN /\ {sliceElements[k].id : k \in DOMAIN sliceElements} = S \cap known
       /\ Len(sliceElements) = Cardinality(S \cap known)
       /\ \A k \in DOMAIN sliceElements :
            sliceElements[k].location = ast[sliceElements[k].id]
       /\ \A k, l \in DOMAIN sliceElements :
            k < l => StartsBeforeOrAt(sliceElements[k], sliceElements[l])

\* A result of three identifiers, one of them unknown to the map, the other two
\* received in descending order of their start on one line, has been reconciled.
C7_Witness ==
  /\ slicePc = "done"
  /\ Len(sliceResult) = 3
  /\ Len(sliceElements) = 2
  /\ \E k, l \in DOMAIN sliceResult :
       /\ k < l
       /\ ast[sliceResult[k]] # NoLocation /\ ast[sliceResult[l]] # NoLocation
       /\ ast[sliceResult[k]].line = ast[sliceResult[l]].line
       /\ ast[sliceResult[k]].column > ast[sliceResult[l]].column

Distinct(seq) == \A k, l \in DOMAIN seq : seq[k] = seq[l] => k = l
Keys(buf) == [k \in DOMAIN buf |-> buf[k][1]]

\* C8: FIFO eviction of the result cache of capacity 5. The cache never holds more
\* than 5 entries; once 6 entries with distinct fingerprints have been pushed it
\* holds exactly 5, the first pushed is gone and the last 5 pushed are there, in
\* the order pushed.
C8_FifoEviction ==
  /\ Len(textBuffer) <= 5
  /\ (Len(pushLog) = 5 + 1 /\ Distinct(pushLog)) =>
       /\ Len(textBuffer) = 5
       /\ \A k \in DOMAIN textBuffer : textBuffer[k][1] # pushLog[1]
       /\ Keys(textBuffer) = SubSeq(pushLog, 2, 5 + 1)

\* Six entries with distinct fingerprints have been pushed.
C8_Witness ==
  Len(pushLog) = 5 + 1 /\ Distinct(pushLog)

\* C9: a refresh that reads the same normalized text as the refresh before it
\* returns at the lastText comparison: it starts no query, does not touch the
\* cache or what is displayed, whatever came of the refresh before it.
C9_SecondRefreshShortCircuits ==
  [][(Refresh /\ ~working /\ activeTextEditor = "r"
        /\ textFingerprint(documentText) = seenText)
       => /\ lastExit' = "lastText"
          /\ UNCHANGED <<working, lastText, textBuffer, activeDependencies,
                         locationMap, inflight>>]_vars

\* A refresh returned at the lastText comparison, on a text that differs from but
\* normalizes to the text seen before, after a first refresh whose query left
\* nothing in the cache.
C9_Witness ==
  /\ lastExit = "lastText"
  /\ seenText = <<"a">>
  /\ lastText = <<"a">>
  /\ documentText = <<"a", NL, "#">>
  /\ textBuffer = <<>>
  /\ ~working

\* C10: the refresh path is non-reentrant. At most one refresh is suspended past
\* the working guard, and working is set while it is; a refresh called while
\* working is set changes nothing and is not queued.
C10_NonReentrant ==
  /\ [](Len(inflight) <= 1 /\ (inflight # <<>> => working))
  /\ [][(Refresh /\ working)
          => UNCHANGED <<working, lastText, textBuffer, activeDependencies,
                         locationMap, inflight, seenText>>]_vars

\* A refresh was called on an R document with a changed text while another was
\* suspended, and was dropped.
C10_Witness ==
  /\ working
  /\ Len(inflight) = 1
  /\ lastExit = "working"
  /\ activeTextEditor = "r"
  /\ textFingerprint(documentText) # lastText

\* C11: a cache hit is served from the cache. A refresh past the guards whose
\* fingerprint is in the cache starts no query, puts on display the dependencies
\* and the location map of the entry get() returns, the latest pushed with that
\* fingerprint, and leaves the cache as it was: same entries, same order.
C11_CacheHit ==
  [][(Refresh /\ ~working /\ activeTextEditor = "r"
        /\ textFingerprint(documentText) # lastText
        /\ \E k \in DOMAIN textBuffer : textBuffer[k][1] = textFingerprint(documentText))
       => LET f == textFingerprint(documentText)
              last == CHOOSE k \in DOMAIN textBuffer :
                        /\ textBuffer[k][1] = f
                        /\ \A l \in DOMAIN textBuffer : textBuffer[l][1] = f => l <= k
          IN /\ inflight' = inflight
             /\ ~working'
             /\ textBuffer' = textBuffer
             /\ activeDependencies' = textBuffer[last][2].dep
             /\ locationMap' = textBuffer[last][2].loc
             /\ lastExit' = "cache"]_vars

\* A refresh was served from the older of two cache entries while the result of
\* the other was on display: the display changed, the cache order did not.
C11_Witness ==
  /\ lastExit = "cache"
  /\ Len(textBuffer) = 2
  /\ textBuffer[1][1] = lastText
  /\ textBuffer[2][1] # lastText
  /\ activeDependencies = textBuffer[1][2].dep
  /\ activeDependencies # textBuffer[2][2].dep

\* The settled exchanges of call i whose frame JSON.parse refused.
Refused(i) == {k \in DOMAIN responses[i] : ~responses[i][k].ok}

\* C12: a frame that is not JSON fails the call that awaited it and nothing else.
\* In the step that delivers it that call rejects, and the waiter slot and the
\* read buffer are empty afterwards; a call made next on the same session, with
\* no other call awaiting, resolves with the parsed payload of its own
\* newline-terminated JSON reply.
C12_ParseFailureIsLocal ==
  /\ [][\A i \in Calls :
          (Len(responses'[i]) > Len(responses[i])
             /\ ~responses'[i][Len(responses'[i])].ok)
          => /\ pc'[i] = "rejected"
             /\ onceOnLineReceived' = 0
             /\ currentMessageBuffer' = <<>>
             /\ \A j \in Calls \ {i} : pc'[j] = pc[j] /\ responses'[j] = responses[j]]_vars
  /\ [](\A i \in Calls : \A j \in Calls \ {i} :
          \A f \in Refused(i) : \A k \in DOMAIN responses[j] :
            LET r == responses[j][k]
                reply == ReceivedSince(r.pos, r.end)
            IN (r.pos = responses[i][f].end /\ r.excl /\ IsSingleReply(reply))
                 => r.ok /\ r.val = SubSeq(reply, 1, Len(reply) - 1))

\* One call was rejected on a frame that is not JSON, and the call made right
\* after it resolved with its own reply.
C12_Witness ==
  \E i \in Calls : \E j \in Calls \ {i} :
    \E f \in Refused(i) : \E k \in DOMAIN responses[j] :
      /\ pc[i] = "rejected"
      /\ responses[j][k].pos = responses[i][f].end
      /\ responses[j][k].ok
      /\ IsSingleReply(ReceivedSince(responses[j][k].pos, responses[j][k].end))

\* C13: a failed dependency query stays local. The step that handles the error
\* result pushes nothing to the cache and leaves the session alone (not destroyed,
\* not unset); with keepOnError set what is displayed stays, without it the
\* dependencies and the location map are both reset to the empty results.
C13_QueryErrorIsLocal ==
  [][\A k \in 1..MaxInFlight :
       /\ (\E keepOnError \in BOOLEAN : QueryFailed(k, keepOnError))
            => /\ textBuffer' = textBuffer
               /\ UNCHANGED <<socket, handleCloses, destroyCalls, flowrSession>>
       /\ QueryFailed(k, TRUE) => UNCHANGED <<activeDependencies, locationMap>>
       /\ QueryFailed(k, FALSE)
            => /\ activeDependencies' = emptyDependencies
               /\ locationMap' = emptyLocationMap]_vars

\* A query failed with keepOnError set while the result of an earlier refresh
\* was displayed: the result is still displayed and the failed text is not cached.
C13_Witness ==
  /\ lastExit = "errorKept"
  /\ ~working
  /\ activeDependencies # emptyDependencies
  /\ Len(textBuffer) = 1
  /\ textBuffer[1][1] # lastText
  /\ flowrSession = "server"

\* The first position at or after p that holds no blank, on the line of p or at
\* its end.
RECURSIVE FirstNonBlank(_, _)
FirstNonBlank(t, p) ==
  IF p > Len(t) \/ t[p] # " " THEN p ELSE FirstNonBlank(t, p + 1)

\* The position after the line break that ends the line of p.
RECURSIVE NextLine(_, _)
NextLine(t, p) ==
  IF p > Len(t) THEN p ELSE IF t[p] = NL THEN p + 1 ELSE NextLine(t, p + 1)

\* A text without its whitespace and without its whole comment lines, the lines
\* whose first character other than a blank is '#': read line by line from p.
RECURSIVE Significant(_, _)
Significant(t, p) ==
  IF p > Len(t) THEN <<>>
  ELSE LET q == FirstNonBlank(t, p)
           n == NextLine(t, p)
       IN (IF q <= Len(t) /\ t[q] = "#"
           THEN <<>>
           ELSE SelectSeq(SubSeq(t, p, n - 1), LAMBDA c : c \notin Whitespace))
          \o Significant(t, n)

\* C14: textFingerprint is blind to whitespace and to whole comment lines,
\* indented or not. A text and the same text without its whitespace and comment
\* lines have the same fingerprint, and the fingerprint holds no whitespace and
\* nothing of a comment line: it is the rest of the text.
C14_FingerprintIgnoresComments ==
  fpPrint # <<"none">> =>
    /\ fpPrint = textFingerprint(Significant(fpText, 1))
    /\ \A k \in DOMAIN fpPrint : fpPrint[k] \notin Whitespace
    /\ fpPrint = Significant(fpText, 1)

RECURSIVE Flatten(_)
Flatten(seqs) == IF seqs = <<>> THEN <<>> ELSE Head(seqs) \o Flatten(Tail(seqs))

\* C15: the framing rule of handleResponse. A chunk that does not end with the
\* terminator emits nothing and is kept; a chunk that ends with it emits what was
\* kept followed by the chunk and leaves the read buffer empty. So the messages
\* emitted, in order, followed by the read buffer are at all times exactly the
\* characters received, none lost, none twice, and every message ends with the
\* terminator.
C15_FramingRule ==
  /\ [](/\ Flatten(emitted) \o currentMessageBuffer = stream
        /\ \A k \in DOMAIN emitted : EndsWithNL(emitted[k])
        /\ ~EndsWithNL(currentMessageBuffer))
  /\ [][stream' # stream =>
          LET chunk == SubSeq(stream', Len(stream) + 1, Len(stream'))
          IN IF EndsWithNL(chunk)
             THEN /\ emitted' = Append(emitted, currentMessageBuffer \o chunk)
                  /\ currentMessageBuffer' = <<>>
             ELSE /\ emitted' = emitted
                  /\ currentMessageBuffer' = currentMessageBuffer \o chunk]_vars

\* A second message was emitted that took more than one chunk to arrive, and
\* nothing is buffered after it.
C15_Witness ==
  /\ Len(emitted) = 2
  /\ Len(emitted[2]) > MaxChunkLen
  /\ currentMessageBuffer = <<>>

\* The calls whose awaited promise settled in this step.
Delivered == {i \in Calls : Len(responses'[i]) > Len(responses[i])}

\* C16: the waiter is a single slot that awaitResponse overwrites. A call that
\* starts to wait takes the slot whoever held it. A call that waits without
\* holding the slot has been dropped: it is never resumed, neither resolved nor
\* rejected, and never gets the slot back. A message that is emitted goes to the
\* holder of the slot and to no other call, and the slot is released by the
\* delivery: afterwards it is empty, unless the resumed call has already taken
\* it again for its next request.
C16_SingleSlotOverwrite ==
  [][/\ \A i \in Calls :
          /\ (pc[i] = "idle" /\ pc'[i] \in Awaiting) => onceOnLineReceived' = i
          /\ (pc[i] \in Awaiting /\ onceOnLineReceived # i)
               => /\ pc'[i] = pc[i]
                  /\ responses'[i] = responses[i]
                  /\ onceOnLineReceived' # i
     /\ Delivered \subseteq {onceOnLineReceived}
     /\ Cardinality(Delivered) <= 1
     /\ emitted' # emitted =>
          /\ Delivered = {onceOnLineReceived} \ {0}
          /\ \/ onceOnLineReceived' = 0
             \/ /\ onceOnLineReceived' = onceOnLineReceived
                /\ pc[onceOnLineReceived] = "awaitAnalysis"
                /\ pc'[onceOnLineReceived] = "awaitSlice"]_vars

\* A second call started to wait while the first was waiting; the next message
\* resolved the second, and the first is still waiting with nothing received.
C16_Witness ==
  \E i \in Calls : \E j \in Calls \ {i} :
    /\ pc[i] \in Awaiting
    /\ onceOnLineReceived # i
    /\ responses[i] = <<>>
    /\ responses[j] # <<>>
    /\ ~responses[j][1].excl
    /\ responses[j][1].ok

\* The requests call i has written, in order.
WrittenBy(i) == SelectSeq(written, LAMBDA r : r.by = i)

\* The steps of call i that ended with a response JSON.parse accepted.
Answered(i) == {responses[i][k].step : k \in {l \in DOMAIN responses[i] : responses[i][l].ok}}

\* C17: retrieveSlice is a fixed exchange of two requests. A call writes at most
\* the file-analysis request and then the slice request, the second only once its
\* analysis response has been received, both with the same file token; request
\* identifiers strictly increase in the order written. A call has returned
\* (diagnostics set, code handed back) only with both requests written and both
\* responses received.
C17_TwoStepExchange ==
  /\ \A k, l \in DOMAIN written : k < l => written[k].id < written[l].id
  /\ \A i \in Calls :
       LET w == WrittenBy(i)
       IN /\ Len(w) <= 2
          /\ Len(w) >= 1 => w[1].type = "request-file-analysis" /\ pc[i] # "idle"
          /\ Len(w) = 2 =>
               /\ w[2].type = "request-slice"
               /\ "awaitAnalysis" \in Answered(i)
               /\ w[2].filetoken = w[1].filetoken
               /\ w[1].id < w[2].id
          /\ pc[i] = "awaitAnalysis" => Len(w) <= 1 /\ Answered(i) = {}
          /\ pc[i] = "returned" =>
               /\ Len(w) = 2
               /\ Answered(i) = {"awaitAnalysis", "awaitSlice"}
               /\ Len(responses[i]) = 2

\* A call went through both round trips and returned.
C17_Witness ==
  \E i \in Calls :
    /\ pc[i] = "returned"
    /\ Len(WrittenBy(i)) = 2
    /\ WrittenBy(i)[2].id = WrittenBy(i)[1].id + 1

\* The document text a result was computed from.
ComputedFrom(result) == Tail(result.dep)

\* C18: every cache entry <<f, result>> holds a result computed from a text whose
\* fingerprint is f, also when the document is edited or the editor changes
\* between the fingerprint of line 115 and the query reading the text.
C18_EntriesMatchTheirKey ==
  \A k \in DOMAIN textBuffer :
    textFingerprint(ComputedFrom(textBuffer[k][2])) = textBuffer[k][1]

\* C19: the working flag is always released. Whenever working is set it is
\* eventually reset, whichever way the suspended refresh ends (result, error
\* result, rejection), given that the promises it awaits settle; and a refresh
\* called with working reset on an R document whose fingerprint has changed is
\* not dropped: it records the fingerprint and is served from the cache or
\* starts a query.
C19_WorkingIsReleased ==
  /\ working ~> ~working
  /\ [][(Refresh /\ ~working /\ activeTextEditor = "r"
           /\ textFingerprint(documentText) # lastText)
          => /\ lastExit' \in {"cache", "query"}
             /\ lastText' = textFingerprint(documentText)]_vars

\* After a refresh that ended with a result, a refresh with another fingerprint
\* has started its query.
C19_Witness ==
  /\ working
  /\ lastExit = "query"
  /\ Len(inflight) = 1
  /\ Len(textBuffer) = 1
  /\ textBuffer[1][1] # lastText

\* C20: the cache never holds two entries with the same fingerprint. The
\* fingerprint of a suspended refresh missed at its lookup and is still not in
\* the cache, so the push that ends the refresh adds a fingerprint that is new.
C20_NoDuplicateFingerprints ==
  /\ Distinct(Keys(textBuffer))
  /\ \A k \in DOMAIN inflight :
       \A l \in DOMAIN textBuffer : textBuffer[l][1] # inflight[k].text

\* Three refreshes with three fingerprints have each pushed their result.
C20_Witness ==
  /\ Len(textBuffer) = 3
  /\ lastExit = "refreshed"
  /\ textBuffer[3][1] = lastText

\* The session objects destroy() has not been called on.
Undestroyed == {k \in DOMAIN sessions : sessions[k].destroys = 0}

\* C21: the extension leaks no session. Every session object created that
\* flowrSession does not refer to has had destroy() called on it, so at most one
\* object is undestroyed at any time; and the disconnect command destroys and
\* unsets the current session when it is a server session, and otherwise leaves
\* flowrSession and every session as they are.
C21_NoSessionLeak ==
  /\ [](/\ Undestroyed \subseteq {flowrSessionRef}
        /\ Cardinality(Undestroyed) <= 1)
  /\ [][Disconnect =>
          IF flowrSessionRef # 0 /\ sessions[flowrSessionRef].kind = "server"
          THEN /\ flowrSessionRef' = 0
               /\ sessions'[flowrSessionRef].destroys = 1
          ELSE UNCHANGED <<sessions, flowrSessionRef>>]_vars

\* A server session was replaced by an internal session while that was still
\* initializing, and that by the current server session: the two replaced are
\* destroyed, the current one is not.
C21_Witness ==
  /\ Len(sessions) = 3
  /\ sessions[1].kind = "server" /\ sessions[1].destroys = 1
  /\ sessions[2].kind = "internal" /\ sessions[2].destroys = 1
  /\ sessions[2].init = "pending"
  /\ sessions[3].kind = "server" /\ sessions[3].destroys = 0
  /\ flowrSessionRef = 3

\* C6: a transport error observed while connecting moves the session to 'failed'.
C6_ErrorWhileConnectingFails ==
  "connecting" \in socketErrors => state = "failed"

====
